---- MODULE Spec2Model ----
(***************************************************************************)
(* pyletteyes: Colour (colour.py) and Palette (palette.py).                *)
(*                                                                         *)
(* A Python list is an object on a heap, named by a reference; a Palette   *)
(* holds a reference to its own list (self._colours) and the caller holds  *)
(* a reference to the list it passed to the constructor or got back from   *)
(* the `colours` accessor.  A Python str is a sequence of one-character    *)
(* strings.  A Python float is an exact rational [n, d]; where the code    *)
(* takes a square root the result is a rational lower bound with the flag  *)
(* `exact` telling whether the bound is the value itself.                  *)
(***************************************************************************)
EXTENDS Integers, Sequences, FiniteSets, TLC

VARIABLES
    heap,       \* the list objects: reference -> sequence of Colours
    selfRef,    \* self._colours of the one Palette; NoRef before construction
    extRef,     \* the caller's list: the constructor's argument, later a `colours` copy
    extFrom,    \* where the caller's list came from: "argument" or "colours"
    op,         \* the last call made
    arg,        \* its argument
    pre,        \* the palette's sequence when the call was made
    err,        \* what the call raised, NoError if it returned
    result,     \* what the call returned
    hexColour,  \* the Colour whose hex round trip is followed
    hexStr,     \* to_hex of hexColour
    hexBack,    \* from_hex of hexStr
    hexPc,      \* position in the round trip
    hexList     \* the list of hex strings given to from_hex_list

vars == <<heap, selfRef, extRef, extFrom, op, arg, pre, err, result,
          hexColour, hexStr, hexBack, hexPc, hexList>>

hexVars == <<hexColour, hexStr, hexBack, hexPc, hexList>>

(***************************************************************************)
(* Bounds.                                                                 *)
(***************************************************************************)
MaxLen == 3

(***************************************************************************)
(* Colour.                                                                 *)
(***************************************************************************)
Channel == 0..255

NoValue == "none"

NoError == [type |-> "None", msg |-> ""]
RangeError == [type |-> "ValueError", msg |-> "RGB values must be between 0 and 255"]

\* Colour.__init__ on integer channels: round() of an int is the int.
ColourInitOk(r, g, b) == \A v \in {r, g, b} : 0 <= v /\ v <= 255

Colour(r, g, b) == [r |-> r, g |-> g, b |-> b]

rgb(c) == <<c.r, c.g, c.b>>

Colour__eq__(a, b) == rgb(a) = rgb(b)

\* The colours the palette runs are built from: black, white, red and an azure.
ColourPool == {Colour(0, 0, 0), Colour(255, 255, 255), Colour(255, 0, 0), Colour(0, 128, 255)}

(***************************************************************************)
(* Floats, as exact rationals [n, d] with d > 0 in lowest terms.           *)
(***************************************************************************)
Abs(x) == IF x < 0 THEN -x ELSE x

RECURSIVE Gcd(_, _)
Gcd(a, b) == IF b = 0 THEN a ELSE Gcd(b, a % b)

Rat(n, d) ==
    LET g == Gcd(Abs(n), Abs(d))
        s == IF d < 0 THEN -1 ELSE 1
    IN  [n |-> (s * n) \div g, d |-> (s * d) \div g]

RatAdd(x, y) ==
    LET l == (x.d \div Gcd(x.d, y.d)) * y.d
    IN  Rat(x.n * (l \div x.d) + y.n * (l \div y.d), l)

RatNeg(x) == [n |-> -x.n, d |-> x.d]

RatSub(x, y) == RatAdd(x, RatNeg(y))

RatMul(x, y) ==
    LET g1 == Gcd(Abs(x.n), y.d)
        g2 == Gcd(Abs(y.n), x.d)
    IN  Rat((x.n \div g1) * (y.n \div g2), (x.d \div g2) * (y.d \div g1))

RatDiv(x, y) == RatMul(x, Rat(y.d, y.n))

RatAbs(x) == [n |-> Abs(x.n), d |-> x.d]

RatLess(x, y) == x.n * y.d < y.n * x.d

RatLeq(x, y) == x.n * y.d <= y.n * x.d

RatMin(x, y) == IF RatLess(y, x) THEN y ELSE x

RatMax(x, y) == IF RatLess(x, y) THEN y ELSE x

RECURSIVE RatSum(_)
RatSum(s) == IF s = <<>> THEN Rat(0, 1) ELSE RatAdd(s[1], RatSum(Tail(s)))

\* sum(xs) / len(xs)
RatMean(s) == RatDiv(RatSum(s), Rat(Len(s), 1))

\* The largest integer whose square is at most k.
RECURSIVE SqrtSearch(_, _, _)
SqrtSearch(k, lo, hi) ==
    IF lo = hi THEN lo
    ELSE LET mid == (lo + hi + 1) \div 2
         IN  IF mid * mid <= k THEN SqrtSearch(k, mid, hi)
             ELSE SqrtSearch(k, lo, mid - 1)

SqrtFloor(k) == SqrtSearch(k, 0, 46340)

\* A returned float: the rational x, which is the value itself when exact and
\* a lower bound (short of the value by less than a rounding step) otherwise.
Float(x, exact) == [n |-> x.n, d |-> x.d, exact |-> exact]

One == Float(Rat(1, 1), TRUE)

Max3(a, b, c) == IF a >= b /\ a >= c THEN a ELSE IF b >= c THEN b ELSE c

Min3(a, b, c) == IF a <= b /\ a <= c THEN a ELSE IF b <= c THEN b ELSE c

\* colorsys.rgb_to_hls(r / 255, g / 255, b / 255), as <<h, l, s>>.
rgb_to_hls(r, g, b) ==
    LET maxc == Max3(r, g, b)
        minc == Min3(r, g, b)
        sumc == maxc + minc
        rangec == maxc - minc
        l == Rat(sumc, 510)
    IN  IF minc = maxc THEN <<Rat(0, 1), l, Rat(0, 1)>>
        ELSE LET s  == IF RatLeq(l, Rat(1, 2)) THEN Rat(rangec, sumc)
                       ELSE Rat(rangec, 510 - sumc)
                 rc == Rat(maxc - r, rangec)
                 gc == Rat(maxc - g, rangec)
                 bc == Rat(maxc - b, rangec)
                 h6 == IF r = maxc THEN RatSub(bc, gc)
                       ELSE IF g = maxc THEN RatAdd(Rat(2, 1), RatSub(rc, bc))
                       ELSE RatAdd(Rat(4, 1), RatSub(gc, rc))
                 hd == RatDiv(h6, Rat(6, 1))
                 h  == IF hd.n < 0 THEN RatAdd(hd, Rat(1, 1)) ELSE hd
             IN  <<h, l, s>>

\* Colour.hsl: <<hue, saturation, lightness>>
hsl(c) == LET hls == rgb_to_hls(c.r, c.g, c.b) IN <<hls[1], hls[3], hls[2]>>

(***************************************************************************)
(* Hex strings.  A str is a sequence of one-character strings.             *)
(***************************************************************************)
HexLower == <<"0", "1", "2", "3", "4", "5", "6", "7", "8", "9",
              "a", "b", "c", "d", "e", "f">>
HexUpper == <<"0", "1", "2", "3", "4", "5", "6", "7", "8", "9",
              "A", "B", "C", "D", "E", "F">>
Whitespace == {" ", "\t", "\n"}

IsHexDigit(ch) == \E i \in 1..16 : HexLower[i] = ch \/ HexUpper[i] = ch

HexValue(ch) == (CHOOSE i \in 1..16 : HexLower[i] = ch \/ HexUpper[i] = ch) - 1

\* str.upper(), character by character.
UpperChar(ch) == IF \E i \in 1..16 : HexLower[i] = ch
                 THEN HexUpper[CHOOSE i \in 1..16 : HexLower[i] = ch]
                 ELSE ch

StrKeep(s) == s

StrUpper(s) == [i \in 1..Len(s) |-> UpperChar(s[i])]

\* format(n, "x"): the lowercase hex digits of n >= 0, no padding.
RECURSIVE FormatX(_)
FormatX(n) == IF n < 16 THEN <<HexLower[n + 1]>>
              ELSE Append(FormatX(n \div 16), HexLower[(n % 16) + 1])

Format02xNoPad(n) == FormatX(n)

\* format(n, "02x"): zero-padded to a width of at least 2.
Format02x(n) == IF Len(FormatX(n)) < 2 THEN <<"0">> \o FormatX(n) ELSE FormatX(n)

\* Colour.to_hex
to_hex(c) == StrUpper(<<"#">> \o Format02x(c.r) \o Format02x(c.g) \o Format02x(c.b))

\* str.lstrip(ch): every leading ch is removed.
RECURSIVE LStrip(_, _)
LStrip(s, ch) == IF s # <<>> /\ s[1] = ch THEN LStrip(Tail(s), ch) ELSE s

\* int(s, 16) of a two-character str: surrounding whitespace is stripped and
\* one sign is accepted before the digits.
ParseInt16(s) ==
    IF IsHexDigit(s[1]) /\ IsHexDigit(s[2])
        THEN [ok |-> TRUE, val |-> 16 * HexValue(s[1]) + HexValue(s[2])]
    ELSE IF s[1] \in Whitespace \cup {"+"} /\ IsHexDigit(s[2])
        THEN [ok |-> TRUE, val |-> HexValue(s[2])]
    ELSE IF s[1] = "-" /\ IsHexDigit(s[2])
        THEN [ok |-> TRUE, val |-> -HexValue(s[2])]
    ELSE IF IsHexDigit(s[1]) /\ s[2] \in Whitespace
        THEN [ok |-> TRUE, val |-> HexValue(s[1])]
    ELSE [ok |-> FALSE, val |-> 0]

HexLengthError == [type |-> "ValueError", msg |-> "Hex colour must be 6 characters long"]
InvalidHexError == [type |-> "ValueError", msg |-> "Invalid hex colour string"]

Slice(s, from, to) == SubSeq(s, from + 1, to)

\* Colour.from_hex: what it raises, and the Colour it returns.
from_hex(hex_string) ==
    LET h == LStrip(hex_string, "#") IN
    IF Len(h) # 6 THEN [err |-> HexLengthError, value |-> NoValue]
    ELSE LET r == ParseInt16(Slice(h, 0, 2))
             g == ParseInt16(Slice(h, 2, 4))
             b == ParseInt16(Slice(h, 4, 6))
         IN  IF r.ok /\ g.ok /\ b.ok /\ ColourInitOk(r.val, g.val, b.val)
             THEN [err |-> NoError, value |-> Colour(r.val, g.val, b.val)]
             ELSE [err |-> InvalidHexError, value |-> NoValue]

(***************************************************************************)
(* Python lists.                                                           *)
(***************************************************************************)
Cells == {"list1", "list2"}
NoRef == "null"

Range(s) == {s[i] : i \in 1..Len(s)}

\* x in list: some element equals x (Colour.__eq__).
ListContains(s, x) == \E i \in 1..Len(s) : Colour__eq__(s[i], x)

\* list.index semantics of the first element equal to x.
FirstIndex(s, x) == CHOOSE i \in 1..Len(s) :
                       /\ Colour__eq__(s[i], x)
                       /\ \A j \in 1..(i - 1) : ~Colour__eq__(s[j], x)

DropAt(s, i) == [j \in 1..(Len(s) - 1) |-> IF j < i THEN s[j] ELSE s[j + 1]]

LastIndex(s, x) == CHOOSE i \in 1..Len(s) :
                      /\ Colour__eq__(s[i], x)
                      /\ \A j \in (i + 1)..Len(s) : ~Colour__eq__(s[j], x)

ListRemoveLast(s, x) == DropAt(s, LastIndex(s, x))

\* list.remove(x): deletes the first element equal to x.
ListRemove(s, x) == DropAt(s, FirstIndex(s, x))

\* list.append(x)
ListAppend(s, x) == Append(s, x)

ListAlias(src, fresh) == src

\* list.copy(): the reference of the result, a new list object.
ListCopy(src, fresh) == fresh

FreshCell(live) == CHOOSE c \in Cells : c \notin live

(***************************************************************************)
(* Palette: construction and mutation.                                     *)
(***************************************************************************)
EmptyPaletteError == [type |-> "ValueError", msg |-> "Palette must contain at least one colour"]
NotInPaletteError == [type |-> "ValueError", msg |-> "Colour not in palette"]
LastColourError == [type |-> "ValueError", msg |-> "Cannot remove last colour from palette"]

Constructed == selfRef # NoRef

SelfColours == heap[selfRef]

size == Len(SelfColours)

NoHex == UNCHANGED hexVars

\* Palette(colours), colours being the caller's list.
Palette__init__ ==
    /\ ~Constructed
    /\ op' = "__init__"
    /\ arg' = heap[extRef]
    /\ pre' = <<>>
    /\ result' = NoValue
    /\ IF heap[extRef] = <<>>
       THEN /\ err' = EmptyPaletteError
            /\ UNCHANGED <<heap, selfRef>>
       ELSE LET new == ListCopy(extRef, FreshCell({extRef})) IN
            /\ heap' = [heap EXCEPT ![new] = heap[extRef]]
            /\ selfRef' = new
            /\ err' = NoError
    /\ UNCHANGED <<extRef, extFrom>>
    /\ NoHex

\* The `colours` property; the caller keeps the returned list.
colours ==
    /\ Constructed
    /\ op' = "colours"
    /\ arg' = NoValue
    /\ pre' = SelfColours
    /\ err' = NoError
    /\ LET new == ListCopy(selfRef, FreshCell({selfRef})) IN
       /\ heap' = [heap EXCEPT ![new] = heap[selfRef]]
       /\ extRef' = new
       /\ extFrom' = "colours"
       /\ result' = heap[selfRef]
    /\ UNCHANGED selfRef
    /\ NoHex

add_colour_unique(colour) ==
    /\ Constructed
    /\ size < MaxLen
    /\ op' = "add_colour"
    /\ arg' = colour
    /\ pre' = SelfColours
    /\ err' = NoError
    /\ result' = NoValue
    /\ heap' = IF ListContains(SelfColours, colour) THEN heap
               ELSE [heap EXCEPT ![selfRef] = ListAppend(SelfColours, colour)]
    /\ UNCHANGED <<selfRef, extRef, extFrom>>
    /\ NoHex

add_colour(colour) ==
    /\ Constructed
    /\ size < MaxLen
    /\ op' = "add_colour"
    /\ arg' = colour
    /\ pre' = SelfColours
    /\ err' = NoError
    /\ result' = NoValue
    /\ heap' = [heap EXCEPT ![selfRef] = ListAppend(SelfColours, colour)]
    /\ UNCHANGED <<selfRef, extRef, extFrom>>
    /\ NoHex

WouldEmptyOffByOne(n) == n < 1

\* `if self.size <= 1`
WouldEmpty(n) == n <= 1

RemoveErrorSizeFirst(s, colour) ==
    IF WouldEmpty(Len(s)) THEN LastColourError
    ELSE IF ~ListContains(s, colour) THEN NotInPaletteError
    ELSE NoError

\* The two checks of remove_colour, in the order the code makes them.
RemoveError(s, colour) ==
    IF ~ListContains(s, colour) THEN NotInPaletteError
    ELSE IF WouldEmpty(Len(s)) THEN LastColourError
    ELSE NoError

remove_colour_late_check(colour) ==
    /\ Constructed
    /\ op' = "remove_colour"
    /\ arg' = colour
    /\ pre' = SelfColours
    /\ result' = NoValue
    /\ err' = RemoveError(SelfColours, colour)
    /\ heap' = IF ListContains(SelfColours, colour)
               THEN [heap EXCEPT ![selfRef] = ListRemove(SelfColours, colour)]
               ELSE heap
    /\ UNCHANGED <<selfRef, extRef, extFrom>>
    /\ NoHex

remove_colour(colour) ==
    /\ Constructed
    /\ op' = "remove_colour"
    /\ arg' = colour
    /\ pre' = SelfColours
    /\ result' = NoValue
    /\ err' = RemoveError(SelfColours, colour)
    /\ heap' = IF RemoveError(SelfColours, colour) = NoError
               THEN [heap EXCEPT ![selfRef] = ListRemove(SelfColours, colour)]
               ELSE heap
    /\ UNCHANGED <<selfRef, extRef, extFrom>>
    /\ NoHex

(***************************************************************************)
(* Palette: the scoring functions and the other read-only calls.           *)
(***************************************************************************)
\* The unordered pairs <<i, j>>, i < j, of 1..n in the order the loops visit them.
RECURSIVE PairsFrom(_, _, _)
PairsFrom(i, j, n) ==
    IF i >= n THEN <<>>
    ELSE IF j > n THEN PairsFrom(i + 1, i + 2, n)
    ELSE <<<<i, j>>>> \o PairsFrom(i, j + 1, n)

Pairs(n) == PairsFrom(1, 2, n)

\* 0.299 r + 0.587 g + 0.114 b
Luminance(c) == Rat(299 * c.r + 587 * c.g + 114 * c.b, 1000)

ScoreContrast(s) ==
    IF Len(s) < 2 THEN One
    ELSE LET P == Pairs(Len(s))
             contrasts == [k \in 1..Len(P) |->
                 RatDiv(RatAbs(RatSub(Luminance(s[P[k][1]]), Luminance(s[P[k][2]]))),
                        Rat(255, 1))]
         IN  Float(RatMean(contrasts), TRUE)

\* sum((a - b) ** 2) over the three channels
SquaredDistance(a, b) ==
    (a.r - b.r) * (a.r - b.r) + (a.g - b.g) * (a.g - b.g) + (a.b - b.b) * (a.b - b.b)

\* np.sqrt of the squared distance, in hundredths, rounded down.
DistanceCenti(a, b) == SqrtFloor(SquaredDistance(a, b) * 10000)

ScoreUniqueness(s) ==
    IF Len(s) < 2 THEN One
    ELSE LET P == Pairs(Len(s))
             similarities == [k \in 1..Len(P) |->
                 RatSub(Rat(1, 1), Rat(DistanceCenti(s[P[k][1]], s[P[k][2]]), 44167))]
             exact == \A k \in 1..Len(P) :
                 LET dc == DistanceCenti(s[P[k][1]], s[P[k][2]])
                 IN  dc * dc = SquaredDistance(s[P[k][1]], s[P[k][2]]) * 10000
         IN  Float(RatSub(Rat(1, 1), RatMean(similarities)), exact)

\* abs(h1 - h2) alone
HueDiffNaive(h1, h2) == RatAbs(RatSub(h1, h2))

\* min(abs(h1 - h2), 1 - abs(h1 - h2))
HueDiff(h1, h2) == RatMin(RatAbs(RatSub(h1, h2)), RatSub(Rat(1, 1), RatAbs(RatSub(h1, h2))))

Near(d, centre) == RatLess(RatAbs(RatSub(d, centre)), Rat(1, 10))

Off(d, centre) == RatAbs(RatSub(d, centre))

\* The max(...) of score_harmony for one pair's hue difference.
Harmony(d) ==
    LET mono  == IF RatLess(d, Rat(1, 100)) THEN Rat(1, 1) ELSE Rat(0, 1)
        analo == IF Near(d, Rat(1, 6)) THEN Rat(8, 10) ELSE Rat(0, 1)
        triad == IF Near(d, Rat(1, 3)) THEN Rat(9, 10) ELSE Rat(0, 1)
        compl == IF Near(d, Rat(1, 2)) THEN Rat(85, 100) ELSE Rat(0, 1)
        base  == RatSub(Rat(1, 2),
                        RatMin(RatMin(Off(d, Rat(0, 1)), Off(d, Rat(1, 6))),
                               RatMin(Off(d, Rat(1, 3)), Off(d, Rat(1, 2)))))
    IN  RatMax(RatMax(RatMax(mono, analo), RatMax(triad, compl)), base)

ScoreHarmony(s) ==
    IF Len(s) < 2 THEN One
    ELSE LET P == Pairs(Len(s))
             harmony_scores == [k \in 1..Len(P) |->
                 Harmony(HueDiff(hsl(s[P[k][1]])[1], hsl(s[P[k][2]])[1]))]
         IN  Float(RatMean(harmony_scores), TRUE)

RatSquare(x) == RatMul(x, x)

\* mean(abs(x - mean(x)) ** 2)
Variance(xs) == RatMean([i \in 1..Len(xs) |-> RatSquare(RatSub(xs[i], RatMean(xs)))])

\* The square root of m / 10^6 in thousandths, rounded down; exact when m is a
\* square and nothing was cut off to get m.
SqrtMillionths(m, cut) ==
    Float(Rat(SqrtFloor(m), 1000), SqrtFloor(m) * SqrtFloor(m) = m /\ cut = 0)

\* np.std(xs)
Std(xs) == SqrtMillionths((Variance(xs).n * 1000000) \div Variance(xs).d,
                          (Variance(xs).n * 1000000) % Variance(xs).d)

ScoreSaturationVariation(s) ==
    IF Len(s) < 2 THEN One
    ELSE Std([i \in 1..Len(s) |-> hsl(s[i])[2]])

IsWarm(h) == RatLeq(h, Rat(167, 1000)) \/ RatLeq(Rat(833, 1000), h)

ScoreTemperatureVariation(s) ==
    IF Len(s) < 2 THEN One
    ELSE LET warm_colors == Cardinality({i \in 1..Len(s) : IsWarm(hsl(s[i])[1])})
             cool_colors == Len(s) - warm_colors
         IN  Float(RatSub(Rat(1, 1), Rat(Abs(warm_colors - cool_colors), Len(s))), TRUE)

ScoreBrightness(s) == Float(RatMean([i \in 1..Len(s) |-> hsl(s[i])[3]]), TRUE)

ScoreBrightnessBalanceNoGuard(s) ==
    LET values == [i \in 1..Len(s) |-> hsl(s[i])[3]]
    IN  Float(RatSub(Rat(1, 1),
                     RatMul(RatAbs(RatSub(RatMean(values), Rat(1, 2))), Rat(2, 1))), TRUE)

ScoreBrightnessBalance(s) ==
    IF Len(s) < 2 THEN One
    ELSE LET values == [i \in 1..Len(s) |-> hsl(s[i])[3]]
         IN  Float(RatSub(Rat(1, 1),
                          RatMul(RatAbs(RatSub(RatMean(values), Rat(1, 2))), Rat(2, 1))), TRUE)

DominantLast(s) == s[Len(s)]

\* self._colours[0]
DominantColour(s) == s[1]

IndexError == [type |-> "IndexError", msg |-> "list index out of range"]

\* list[index], index counted from 0, a negative index from the end.
GetItem(s, index) ==
    IF 0 <= index /\ index < Len(s) THEN [err |-> NoError, value |-> s[index + 1]]
    ELSE IF index < 0 /\ -Len(s) <= index
        THEN [err |-> NoError, value |-> s[Len(s) + index + 1]]
    ELSE [err |-> IndexError, value |-> NoValue]

\* A call that returns value (or raises e) and assigns nothing.
Reads(name, a, e, value) ==
    /\ Constructed
    /\ op' = name
    /\ arg' = a
    /\ pre' = SelfColours
    /\ err' = e
    /\ result' = value
    /\ UNCHANGED <<heap, selfRef, extRef, extFrom>>
    /\ NoHex

size_get == Reads("size", NoValue, NoError, size)

Palette__len__ == Reads("__len__", NoValue, NoError, size)

score_contrast == Reads("score_contrast", NoValue, NoError, ScoreContrast(SelfColours))

score_uniqueness == Reads("score_uniqueness", NoValue, NoError, ScoreUniqueness(SelfColours))

score_harmony == Reads("score_harmony", NoValue, NoError, ScoreHarmony(SelfColours))

score_saturation_variation ==
    Reads("score_saturation_variation", NoValue, NoError, ScoreSaturationVariation(SelfColours))

score_temperature_variation ==
    Reads("score_temperature_variation", NoValue, NoError, ScoreTemperatureVariation(SelfColours))

score_brightness == Reads("score_brightness", NoValue, NoError, ScoreBrightness(SelfColours))

score_brightness_balance ==
    Reads("score_brightness_balance", NoValue, NoError, ScoreBrightnessBalance(SelfColours))

get_dominant_colour_pop ==
    /\ Constructed
    /\ op' = "get_dominant_colour"
    /\ arg' = NoValue
    /\ pre' = SelfColours
    /\ err' = NoError
    /\ result' = DominantColour(SelfColours)
    /\ heap' = [heap EXCEPT ![selfRef] = Tail(SelfColours)]
    /\ UNCHANGED <<selfRef, extRef, extFrom>>
    /\ NoHex

get_dominant_colour ==
    Reads("get_dominant_colour", NoValue, NoError, DominantColour(SelfColours))

to_hex_list ==
    Reads("to_hex_list", NoValue, NoError, [i \in 1..size |-> to_hex(SelfColours[i])])

\* The first error the list comprehension of from_hex_list meets, NoError if none.
FirstHexError(hex_colours) ==
    IF \A i \in 1..Len(hex_colours) : from_hex(hex_colours[i]).err = NoError THEN NoError
    ELSE from_hex(hex_colours[CHOOSE i \in 1..Len(hex_colours) :
             /\ from_hex(hex_colours[i]).err # NoError
             /\ \A j \in 1..(i - 1) : from_hex(hex_colours[j]).err = NoError]).err

\* Palette.from_hex_list(hexList): the list it builds is the caller-side list
\* the constructor copies.
from_hex_list ==
    /\ ~Constructed
    /\ op = "start"
    /\ op' = "from_hex_list"
    /\ arg' = hexList
    /\ pre' = <<>>
    /\ result' = NoValue
    /\ IF FirstHexError(hexList) # NoError
       THEN /\ err' = FirstHexError(hexList)
            /\ UNCHANGED <<heap, selfRef>>
       ELSE IF hexList = <<>>
       THEN /\ err' = EmptyPaletteError
            /\ UNCHANGED <<heap, selfRef>>
       ELSE LET new == ListCopy(extRef, FreshCell({extRef})) IN
            /\ heap' = [heap EXCEPT
                   ![extRef] = [i \in 1..Len(hexList) |-> from_hex(hexList[i]).value],
                   ![new] = [i \in 1..Len(hexList) |-> from_hex(hexList[i]).value]]
            /\ selfRef' = new
            /\ err' = NoError
    /\ UNCHANGED <<extRef, extFrom>>
    /\ NoHex

\* The names class Colour defines.
ColourAttributes == {"__init__", "rgb", "hsl", "from_hsl", "from_hex", "to_hex", "lighten",
                     "darken", "get_pastel", "get_complementary", "get_analogous",
                     "get_triadic", "__eq__", "__repr__"}

AttributeError(name) == [type |-> "AttributeError", msg |-> name]

\* Looking name up on Colour or on a Colour: what it raises.
ColourLookup(name) == IF name \in ColourAttributes THEN NoError ELSE AttributeError(name)

DecDigits == <<"0", "1", "2", "3", "4", "5", "6", "7", "8", "9">>

\* str(n) of an integer n >= 0
RECURSIVE DecStr(_)
DecStr(n) == IF n < 10 THEN <<DecDigits[n + 1]>>
             ELSE Append(DecStr(n \div 10), DecDigits[(n % 10) + 1])

\* Colour.__repr__: "rgb(r, g, b)"
Colour__repr__(c) ==
    <<"r", "g", "b", "(">> \o DecStr(c.r) \o <<",", " ">> \o DecStr(c.g)
        \o <<",", " ">> \o DecStr(c.b) \o <<")">>

\* Palette.to_string_list: c.to_string() is looked up for the first colour.
to_string_list ==
    Reads("to_string_list", NoValue, ColourLookup("to_string"), NoValue)

\* Palette.from_string_list(rgb_colours), a classmethod: Colour.from_string is
\* looked up for the first string; with no string, cls([]) is called.
from_string_list(rgb_colours) ==
    Reads("from_string_list", rgb_colours,
          IF rgb_colours = <<>> THEN EmptyPaletteError ELSE ColourLookup("from_string"),
          NoValue)

\* The lists of rgb strings given to from_string_list.
RgbStringLists == {<<>>} \cup {<<Colour__repr__(c)>> : c \in ColourPool}

Palette__getitem__(index) ==
    Reads("__getitem__", index, GetItem(SelfColours, index).err, GetItem(SelfColours, index).value)

ReadOnlyCalls == {"size", "__len__", "score_contrast", "score_uniqueness", "score_harmony",
                  "score_saturation_variation", "score_temperature_variation",
                  "score_brightness", "score_brightness_balance", "get_dominant_colour",
                  "to_hex_list", "__getitem__"}

(***************************************************************************)
(* The caller, mutating the list it holds.                                 *)
(***************************************************************************)
ExternalAppend(colour) ==
    /\ Len(heap[extRef]) < MaxLen
    /\ op' = "external append"
    /\ arg' = colour
    /\ pre' = IF Constructed THEN SelfColours ELSE <<>>
    /\ err' = NoError
    /\ result' = NoValue
    /\ heap' = [heap EXCEPT ![extRef] = ListAppend(heap[extRef], colour)]
    /\ UNCHANGED <<selfRef, extRef, extFrom>>
    /\ NoHex

ExternalRemove(colour) ==
    /\ ListContains(heap[extRef], colour)
    /\ op' = "external remove"
    /\ arg' = colour
    /\ pre' = IF Constructed THEN SelfColours ELSE <<>>
    /\ err' = NoError
    /\ result' = NoValue
    /\ heap' = [heap EXCEPT ![extRef] = ListRemove(heap[extRef], colour)]
    /\ UNCHANGED <<selfRef, extRef, extFrom>>
    /\ NoHex

(***************************************************************************)
(* Specification of the palette.                                           *)
(***************************************************************************)
Init ==
    /\ heap = [c \in Cells |-> <<>>]
    /\ selfRef = NoRef
    /\ extRef = "list1"
    /\ extFrom = "argument"
    /\ op = "start"
    /\ arg = NoValue
    /\ pre = <<>>
    /\ err = NoError
    /\ result = NoValue
    /\ hexColour = Colour(0, 0, 0)
    /\ hexStr = <<>>
    /\ hexBack = NoValue
    /\ hexPc = "idle"
    /\ hexList = <<>>

Next ==
    \/ Palette__init__
    \/ colours
    \/ \E c \in ColourPool : add_colour(c)
    \/ \E c \in ColourPool : remove_colour(c)
    \/ \E c \in ColourPool : ExternalAppend(c)
    \/ \E c \in ColourPool : ExternalRemove(c)

Spec == Init /\ [][Next]_vars

(***************************************************************************)
(* Specification of a constructed palette and its read-only calls: it      *)
(* starts as Palette([c]) and no caller list is followed.                  *)
(***************************************************************************)
InitScores ==
    /\ \E c \in ColourPool : heap = [list1 |-> <<>>, list2 |-> <<c>>]
    /\ selfRef = "list2"
    /\ extRef = "list1"
    /\ extFrom = "argument"
    /\ op = "start"
    /\ arg = NoValue
    /\ pre = <<>>
    /\ err = NoError
    /\ result = NoValue
    /\ hexColour = Colour(0, 0, 0)
    /\ hexStr = <<>>
    /\ hexBack = NoValue
    /\ hexPc = "idle"
    /\ hexList = <<>>

NextScores ==
    \/ \E c \in ColourPool : add_colour(c)
    \/ \E c \in ColourPool : remove_colour(c)
    \/ size_get
    \/ Palette__len__
    \/ score_contrast
    \/ score_uniqueness
    \/ score_harmony
    \/ score_saturation_variation
    \/ score_temperature_variation
    \/ score_brightness
    \/ score_brightness_balance
    \/ get_dominant_colour
    \/ to_hex_list
    \/ \E i \in (-MaxLen - 1)..MaxLen : Palette__getitem__(i)
    \/ to_string_list
    \/ \E l \in RgbStringLists : from_string_list(l)

SpecScores == InitScores /\ [][NextScores]_vars

(***************************************************************************)
(* Specification of the hex round trip of one Colour: to_hex, then         *)
(* from_hex of the string it gave.                                         *)
(***************************************************************************)
HexSample == {0, 9, 10, 15, 16, 171, 255}

\* Every value of one channel, beside sampled values of the other two.
HexInputs ==
    {Colour(v, x, y) : v \in Channel, x \in HexSample, y \in HexSample}
    \cup {Colour(x, v, y) : v \in Channel, x \in HexSample, y \in HexSample}
    \cup {Colour(x, y, v) : v \in Channel, x \in HexSample, y \in HexSample}

NoPalette ==
    /\ heap = [c \in Cells |-> <<>>]
    /\ selfRef = NoRef
    /\ extRef = "list1"
    /\ extFrom = "argument"
    /\ op = "start"
    /\ arg = NoValue
    /\ pre = <<>>
    /\ err = NoError
    /\ result = NoValue

InitHex ==
    /\ NoPalette
    /\ hexColour \in HexInputs
    /\ hexStr = <<>>
    /\ hexBack = NoValue
    /\ hexPc = "start"
    /\ hexList = <<>>

EmitHex ==
    /\ hexPc = "start"
    /\ hexStr' = to_hex(hexColour)
    /\ hexPc' = "emitted"
    /\ UNCHANGED <<hexColour, hexBack, hexList>>
    /\ UNCHANGED <<heap, selfRef, extRef, extFrom, op, arg, pre, err, result>>

ParseHex ==
    /\ hexPc = "emitted"
    /\ hexBack' = from_hex(hexStr)
    /\ hexPc' = "parsed"
    /\ UNCHANGED <<hexColour, hexStr, hexList>>
    /\ UNCHANGED <<heap, selfRef, extRef, extFrom, op, arg, pre, err, result>>

NextHex == EmitHex \/ ParseHex

SpecHex == InitHex /\ [][NextHex]_vars

(***************************************************************************)
(* Specification of from_hex on one given string, well-formed or not.      *)
(***************************************************************************)
HexPrefixes == {<<>>, <<"#">>, <<"#", "#">>}

PairChars == {"0", "9", "a", "F", "G", "+", "-", " ", "#"}

HexTails == {<<"0", "0", "0", "0">>, <<"f", "F", "8", "0">>, <<"0", "0", "0">>,
             <<"0", "0", "0", "0", "0">>}

\* A prefix of '#', one two-character field of any kind, and a tail that
\* brings the length to 5, 6 or 7.
HexStrings ==
    {p \o <<x, y>> \o tl : p \in HexPrefixes, x \in PairChars, y \in PairChars, tl \in HexTails}

\* The string is at hand, as if emitted, and is parsed once.
InitFromHex ==
    /\ NoPalette
    /\ hexColour = Colour(0, 0, 0)
    /\ hexStr \in HexStrings
    /\ hexBack = NoValue
    /\ hexPc = "emitted"
    /\ hexList = <<>>

NextFromHex == ParseHex

SpecFromHex == InitFromHex /\ [][NextFromHex]_vars

(***************************************************************************)
(* Specification of Palette.from_hex_list(L).to_hex_list().                *)
(***************************************************************************)
MaxHexList == 2

HexWords == {<<"#", "F", "F", "0", "0", "0", "0">>,
             <<"F", "F", "0", "0", "0", "0">>,
             <<"#", "f", "f", "8", "0", "0", "0">>,
             <<"0", "0", "f", "F", "0", "a">>,
             <<"#", "0", "0", "0", "0", "F", "F">>,
             <<"#", "1", "2", "A", "B", "e", "9">>,
             <<"#", "G", "G", "8", "0", "0", "0">>,
             <<"#", "F", "F", "8", "0">>}

HexLists == UNION {[1..n -> HexWords] : n \in 0..MaxHexList}

InitHexList ==
    /\ NoPalette
    /\ hexColour = Colour(0, 0, 0)
    /\ hexStr = <<>>
    /\ hexBack = NoValue
    /\ hexPc = "idle"
    /\ hexList \in HexLists

NextHexList == from_hex_list \/ to_hex_list

SpecHexList == InitHexList /\ [][NextHexList]_vars

(***************************************************************************)
(* Specification of Colour(r, g, b) on real inputs.  A real is given in    *)
(* quarters: the integer q stands for q/4, which a float holds exactly.    *)
(***************************************************************************)
MaxQuarter == 1032

\* From -2.0 up to MaxQuarter/4, past both ends of 0..255.
Quarters == (-8)..MaxQuarter

\* -0.5, 1.5, 254.5 and 255.5
QuarterSample == {-2, 6, 1018, 1022}

RealInputs ==
    {<<x, y, z>> : x \in Quarters, y \in QuarterSample, z \in QuarterSample}
    \cup {<<y, x, z>> : x \in Quarters, y \in QuarterSample, z \in QuarterSample}
    \cup {<<y, z, x>> : x \in Quarters, y \in QuarterSample, z \in QuarterSample}

\* int(q/4), which drops the fraction.
PyTrunc(q) == IF q >= 0 THEN q \div 4 ELSE -((-q) \div 4)

\* round(q/4): to the nearest integer, a half to the even neighbour.
PyRound(q) ==
    IF q % 4 < 2 THEN q \div 4
    ELSE IF q % 4 > 2 THEN (q \div 4) + 1
    ELSE IF (q \div 4) % 2 = 0 THEN q \div 4
    ELSE (q \div 4) + 1

\* Colour.__init__(r, g, b)
Colour__init__(r, g, b) ==
    /\ ~Constructed
    /\ op = "start"
    /\ arg = <<r, g, b>>
    /\ op' = "Colour__init__"
    /\ IF ColourInitOk(PyRound(r), PyRound(g), PyRound(b))
       THEN /\ err' = NoError
            /\ result' = Colour(PyRound(r), PyRound(g), PyRound(b))
       ELSE /\ err' = RangeError
            /\ result' = NoValue
    /\ UNCHANGED <<heap, selfRef, extRef, extFrom, arg, pre>>
    /\ NoHex

InitColour ==
    /\ heap = [c \in Cells |-> <<>>]
    /\ selfRef = NoRef
    /\ extRef = "list1"
    /\ extFrom = "argument"
    /\ op = "start"
    /\ arg \in RealInputs
    /\ pre = <<>>
    /\ err = NoError
    /\ result = NoValue
    /\ hexColour = Colour(0, 0, 0)
    /\ hexStr = <<>>
    /\ hexBack = NoValue
    /\ hexPc = "idle"
    /\ hexList = <<>>

\* The call is made on the inputs at hand.
NextColour == Colour__init__(arg[1], arg[2], arg[3])

SpecColour == InitColour /\ [][NextColour]_vars

(***************************************************************************)
(* Specification of score_harmony on the palettes of two colours of a grid.*)
(***************************************************************************)
GridLevels == {0, 51, 102, 153, 204, 255}

GridColours == {Colour(x, y, z) : x \in GridLevels, y \in GridLevels, z \in GridLevels}

CoarseLevels == {0, 102, 255}

CoarseColours == {Colour(x, y, z) : x \in CoarseLevels, y \in CoarseLevels, z \in CoarseLevels}

InitHarmony ==
    /\ \E a \in GridColours, b \in CoarseColours : heap = [list1 |-> <<>>, list2 |-> <<a, b>>]
    /\ selfRef = "list2"
    /\ extRef = "list1"
    /\ extFrom = "argument"
    /\ op = "start"
    /\ arg = NoValue
    /\ pre = <<>>
    /\ err = NoError
    /\ result = NoValue
    /\ hexColour = Colour(0, 0, 0)
    /\ hexStr = <<>>
    /\ hexBack = NoValue
    /\ hexPc = "idle"
    /\ hexList = <<>>

NextHarmony == score_harmony

SpecHarmony == InitHarmony /\ [][NextHarmony]_vars

(***************************************************************************)
(* Natural numbers of any size, as sequences of 15-bit limbs, the least    *)
(* significant first and the most significant nonzero; <<>> is 0.          *)
(***************************************************************************)
Pow2(k) == <<1, 2, 4, 8, 16, 32, 64, 128, 256, 512, 1024, 2048, 4096, 8192, 16384, 32768>>[k + 1]

Limb(a, i) == IF i >= 1 /\ i <= Len(a) THEN a[i] ELSE 0

RECURSIVE BigTrim(_)
BigTrim(a) ==
    IF a = <<>> THEN a
    ELSE IF a[Len(a)] = 0 THEN BigTrim(SubSeq(a, 1, Len(a) - 1))
    ELSE a

BigFromInt(n) == BigTrim(<<n % 32768, (n \div 32768) % 32768, n \div 1073741824>>)

BigToInt(a) == Limb(a, 1) + 32768 * Limb(a, 2)

RECURSIVE BigAddFrom(_, _, _, _, _)
BigAddFrom(a, b, i, c, n) ==
    IF i > n THEN <<>>
    ELSE <<(Limb(a, i) + Limb(b, i) + c) % 32768>>
             \o BigAddFrom(a, b, i + 1, (Limb(a, i) + Limb(b, i) + c) \div 32768, n)

BigAdd(a, b) == BigTrim(BigAddFrom(a, b, 1, 0, (IF Len(a) > Len(b) THEN Len(a) ELSE Len(b)) + 1))

RECURSIVE BigSubFrom(_, _, _, _)
BigSubFrom(a, b, i, c) ==
    IF i > Len(a) THEN <<>>
    ELSE <<(Limb(a, i) - Limb(b, i) - c) % 32768>>
             \o BigSubFrom(a, b, i + 1, IF Limb(a, i) - Limb(b, i) - c < 0 THEN 1 ELSE 0)

\* a - b, for a >= b
BigSub(a, b) == BigTrim(BigSubFrom(a, b, 1, 0))

RECURSIVE BigCmpFrom(_, _, _)
BigCmpFrom(a, b, i) ==
    IF i = 0 THEN 0
    ELSE IF a[i] < b[i] THEN -1
    ELSE IF a[i] > b[i] THEN 1
    ELSE BigCmpFrom(a, b, i - 1)

\* -1, 0 or 1 as a is below, equal to or above b
BigCmp(a, b) ==
    IF Len(a) < Len(b) THEN -1
    ELSE IF Len(a) > Len(b) THEN 1
    ELSE BigCmpFrom(a, b, Len(a))

RECURSIVE BigMulLimbFrom(_, _, _, _)
BigMulLimbFrom(a, k, i, c) ==
    IF i > Len(a) THEN <<c>>
    ELSE <<(a[i] * k + c) % 32768>> \o BigMulLimbFrom(a, k, i + 1, (a[i] * k + c) \div 32768)

\* a * k for one limb k
BigMulLimb(a, k) == BigTrim(BigMulLimbFrom(a, k, 1, 0))

BigShiftLimbs(a, q) == IF a = <<>> THEN a ELSE [i \in 1..q |-> 0] \o a

RECURSIVE BigMulFrom(_, _, _)
BigMulFrom(a, b, i) ==
    IF i > Len(b) THEN <<>>
    ELSE BigAdd(BigShiftLimbs(BigMulLimb(a, b[i]), i - 1), BigMulFrom(a, b, i + 1))

BigMul(a, b) == BigMulFrom(a, b, 1)

\* a * 2^k
BigShl(a, k) == BigShiftLimbs(BigMulLimb(a, Pow2(k % 15)), k \div 15)

BigDropLimbs(a, q) == IF q >= Len(a) THEN <<>> ELSE SubSeq(a, q + 1, Len(a))

BigShrSmall(x, r) ==
    BigTrim([i \in 1..Len(x) |-> (x[i] \div Pow2(r)) + (Limb(x, i + 1) % Pow2(r)) * Pow2(15 - r)])

\* a \div 2^k
BigShr(a, k) == BigShrSmall(BigDropLimbs(a, k \div 15), k % 15)

\* a % 2^k = 0
BigLowZero(a, k) ==
    /\ \A i \in 1..(k \div 15) : Limb(a, i) = 0
    /\ Limb(a, (k \div 15) + 1) % Pow2(k % 15) = 0

\* bit k of a, bit 0 the lowest
BigBit(a, k) == (Limb(a, (k \div 15) + 1) \div Pow2(k % 15)) % 2

\* the number of bits of a
BigBitLen(a) ==
    IF a = <<>> THEN 0
    ELSE 15 * (Len(a) - 1)
           + (CHOOSE k \in 1..15 : Pow2(k - 1) <= a[Len(a)] /\ a[Len(a)] < Pow2(k))

\* The first 55 bits of R / B and whether more follow, for B <= R < 2 * B;
\* Q holds the bits found so far and R the remainder, doubled.
RECURSIVE BigDivBits(_, _, _)
BigDivBits(R, B, Q) ==
    IF BigBitLen(Q) = 55 THEN [q |-> Q, sticky |-> R # <<>>]
    ELSE IF BigCmp(R, B) >= 0
    THEN BigDivBits(BigMulLimb(BigSub(R, B), 2), B, BigAdd(BigMulLimb(Q, 2), <<1>>))
    ELSE BigDivBits(BigMulLimb(R, 2), B, BigMulLimb(Q, 2))

(***************************************************************************)
(* Python floats: IEEE 754 doubles, s * m * 2^e with s the sign, m of      *)
(* exactly 53 bits (or 0), every operation rounded to the nearest double,  *)
(* a tie to the even mantissa.  The values met here are far from the       *)
(* ends of the exponent range.                                             *)
(***************************************************************************)
FltZero == [s |-> 1, m |-> <<>>, e |-> 0]

FltCarry(s, m, e) ==
    IF BigBitLen(m) = 54 THEN [s |-> s, m |-> BigShr(m, 1), e |-> e + 1]
    ELSE [s |-> s, m |-> m, e |-> e]

\* Drops the k low bits of m, rounding.
FltRoundCut(s, m, e, k) ==
    IF BigBit(m, k - 1) = 1 /\ (~BigLowZero(m, k - 1) \/ BigBit(m, k) = 1)
    THEN FltCarry(s, BigAdd(BigShr(m, k), <<1>>), e + k)
    ELSE [s |-> s, m |-> BigShr(m, k), e |-> e + k]

\* The double nearest to s * m * 2^e.
FltRound(s, m, e) ==
    IF m = <<>> THEN FltZero
    ELSE IF BigBitLen(m) <= 53
         THEN [s |-> s, m |-> BigShl(m, 53 - BigBitLen(m)), e |-> e - (53 - BigBitLen(m))]
         ELSE FltRoundCut(s, m, e, BigBitLen(m) - 53)

\* float(n) of an int n
FltInt(n) == FltRound(IF n < 0 THEN -1 ELSE 1, BigFromInt(Abs(n)), 0)

FltNeg(x) == IF x.m = <<>> THEN x ELSE [x EXCEPT !.s = -x.s]

FltAddAligned(sx, X, sy, Y, e) ==
    IF sx = sy THEN FltRound(sx, BigAdd(X, Y), e)
    ELSE IF BigCmp(X, Y) = 0 THEN FltZero
    ELSE IF BigCmp(X, Y) > 0 THEN FltRound(sx, BigSub(X, Y), e)
    ELSE FltRound(sy, BigSub(Y, X), e)

FltAdd(x, y) ==
    IF x.m = <<>> THEN y
    ELSE IF y.m = <<>> THEN x
    ELSE IF x.e <= y.e THEN FltAddAligned(x.s, x.m, y.s, BigShl(y.m, y.e - x.e), x.e)
    ELSE FltAddAligned(x.s, BigShl(x.m, x.e - y.e), y.s, y.m, y.e)

FltSub(x, y) == FltAdd(x, FltNeg(y))

FltMul(x, y) ==
    IF x.m = <<>> \/ y.m = <<>> THEN FltZero
    ELSE FltRound(x.s * y.s, BigMul(x.m, y.m), x.e + y.e)

FltDivRound(s, d, e) ==
    FltRound(s, BigAdd(BigMulLimb(d.q, 2), IF d.sticky THEN <<1>> ELSE <<>>), e)

\* x / y for y # 0: the quotient of the mantissas lies in [1, 2) once the
\* smaller dividend is doubled.
FltDiv(x, y) ==
    IF x.m = <<>> THEN FltZero
    ELSE IF BigCmp(x.m, y.m) >= 0
    THEN FltDivRound(x.s * y.s, BigDivBits(x.m, y.m, <<>>), x.e - y.e - 55)
    ELSE FltDivRound(x.s * y.s, BigDivBits(BigMulLimb(x.m, 2), y.m, <<>>), x.e - y.e - 56)

FltSign(x) == IF x.m = <<>> THEN 0 ELSE x.s

FltCmpMag(x, y) ==
    IF x.e < y.e THEN -1
    ELSE IF x.e > y.e THEN 1
    ELSE BigCmp(x.m, y.m)

\* -1, 0 or 1 as x is below, equal to or above y
FltCmp(x, y) ==
    IF FltSign(x) < FltSign(y) THEN -1
    ELSE IF FltSign(x) > FltSign(y) THEN 1
    ELSE IF FltSign(x) = 0 THEN 0
    ELSE FltSign(x) * FltCmpMag(x, y)

FltLess(x, y) == FltCmp(x, y) < 0

FltLeq(x, y) == FltCmp(x, y) <= 0

\* The integer part of |x|.
FltFloorMag(x) == IF x.e >= 0 THEN BigShl(x.m, x.e) ELSE BigShr(x.m, -x.e)

\* int(x), which drops the fraction
FltTrunc(x) == x.s * BigToInt(FltFloorMag(x))

\* math.fmod(x, 1.0): the fraction of x, with the sign of x
FltFmod1(x) ==
    IF x.e >= 0 THEN FltZero
    ELSE FltRound(x.s, BigSub(x.m, BigShl(BigShr(x.m, -x.e), -x.e)), x.e)

\* x % 1.0
FltMod1(x) ==
    IF FltSign(FltFmod1(x)) < 0 THEN FltAdd(FltFmod1(x), FltInt(1)) ELSE FltFmod1(x)

(***************************************************************************)
(* colorsys on floats, and lighten and darken.                             *)
(***************************************************************************)
FltOne == FltInt(1)

FltHalf == FltDiv(FltInt(1), FltInt(2))

ONE_THIRD == FltDiv(FltInt(1), FltInt(3))

ONE_SIXTH == FltDiv(FltInt(1), FltInt(6))

TWO_THIRD == FltDiv(FltInt(2), FltInt(3))

FltMax3(a, b, c) ==
    IF FltLeq(b, a) /\ FltLeq(c, a) THEN a ELSE IF FltLeq(c, b) THEN b ELSE c

FltMin3(a, b, c) ==
    IF FltLeq(a, b) /\ FltLeq(a, c) THEN a ELSE IF FltLeq(b, c) THEN b ELSE c

\* s of rgb_to_hls
HlsSaturation(maxc, minc, l) ==
    IF FltLeq(l, FltHalf) THEN FltDiv(FltSub(maxc, minc), FltAdd(maxc, minc))
    ELSE FltDiv(FltSub(maxc, minc), FltSub(FltSub(FltInt(2), maxc), minc))

\* rc, gc and bc of rgb_to_hls
HlsPart(maxc, minc, x) == FltDiv(FltSub(maxc, x), FltSub(maxc, minc))

\* h of rgb_to_hls before h = (h/6.0) % 1.0
HlsSextant(r, g, b, maxc, minc) ==
    IF FltCmp(r, maxc) = 0
    THEN FltSub(HlsPart(maxc, minc, b), HlsPart(maxc, minc, g))
    ELSE IF FltCmp(g, maxc) = 0
    THEN FltSub(FltAdd(FltInt(2), HlsPart(maxc, minc, r)), HlsPart(maxc, minc, b))
    ELSE FltSub(FltAdd(FltInt(4), HlsPart(maxc, minc, g)), HlsPart(maxc, minc, r))

HlsFromExtremes(r, g, b, maxc, minc) ==
    IF FltCmp(minc, maxc) = 0
    THEN <<FltZero, FltDiv(FltAdd(maxc, minc), FltInt(2)), FltZero>>
    ELSE <<FltMod1(FltDiv(HlsSextant(r, g, b, maxc, minc), FltInt(6))),
           FltDiv(FltAdd(maxc, minc), FltInt(2)),
           HlsSaturation(maxc, minc, FltDiv(FltAdd(maxc, minc), FltInt(2)))>>

\* colorsys.rgb_to_hls(r, g, b) on floats, as <<h, l, s>>
float_rgb_to_hls(r, g, b) == HlsFromExtremes(r, g, b, FltMax3(r, g, b), FltMin3(r, g, b))

\* Colour.hsl as the floats the code holds: <<h, l, s>> before the rearrangement
float_hls(c) ==
    float_rgb_to_hls(FltDiv(FltInt(c.r), FltInt(255)), FltDiv(FltInt(c.g), FltInt(255)),
                     FltDiv(FltInt(c.b), FltInt(255)))

\* m2 of hls_to_rgb
HlsM2(l, s) ==
    IF FltLeq(l, FltHalf) THEN FltMul(l, FltAdd(FltOne, s))
    ELSE FltSub(FltAdd(l, s), FltMul(l, s))

\* m1 of hls_to_rgb
HlsM1(l, m2) == FltSub(FltMul(FltInt(2), l), m2)

\* colorsys._v after hue = hue % 1.0
HlsRamp(m1, m2, hue) ==
    IF FltLess(hue, ONE_SIXTH)
    THEN FltAdd(m1, FltMul(FltMul(FltSub(m2, m1), hue), FltInt(6)))
    ELSE IF FltLess(hue, FltHalf) THEN m2
    ELSE IF FltLess(hue, TWO_THIRD)
    THEN FltAdd(m1, FltMul(FltMul(FltSub(m2, m1), FltSub(TWO_THIRD, hue)), FltInt(6)))
    ELSE m1

\* colorsys._v
hls_v(m1, m2, hue) == HlsRamp(m1, m2, FltMod1(hue))

HlsToRgbFrom(h, m1, m2) ==
    <<hls_v(m1, m2, FltAdd(h, ONE_THIRD)), hls_v(m1, m2, h), hls_v(m1, m2, FltSub(h, ONE_THIRD))>>

\* colorsys.hls_to_rgb(h, l, s)
hls_to_rgb(h, l, s) ==
    IF s.m = <<>> THEN <<l, l, l>>
    ELSE HlsToRgbFrom(h, HlsM1(l, HlsM2(l, s)), HlsM2(l, s))

\* Colour(r, g, b) on integers: the Colour, or the error raised.
NewColour(r, g, b) ==
    IF ColourInitOk(r, g, b) THEN [err |-> NoError, value |-> Colour(r, g, b)]
    ELSE [err |-> RangeError, value |-> NoValue]

\* Colour(int(r * 255), int(g * 255), int(b * 255))
FromUnitRgb(u) ==
    NewColour(FltTrunc(FltMul(u[1], FltInt(255))), FltTrunc(FltMul(u[2], FltInt(255))),
              FltTrunc(FltMul(u[3], FltInt(255))))

\* min(1, x)
MinOne(x) == IF FltLess(x, FltOne) THEN x ELSE FltOne

\* max(0, x)
MaxZero(x) == IF FltLess(FltZero, x) THEN x ELSE FltZero

LightenFrom(hls, amount) == FromUnitRgb(hls_to_rgb(hls[1], MinOne(FltAdd(hls[2], amount)), hls[3]))

DarkenFrom(hls, amount) == FromUnitRgb(hls_to_rgb(hls[1], MaxZero(FltSub(hls[2], amount)), hls[3]))

\* The float num / den, the value of the decimal literal.
Amount(a) == FltDiv(FltInt(a.num), FltInt(a.den))

\* Colour.lighten(amount) on the colour at hand
lighten ==
    /\ ~Constructed
    /\ op = "start"
    /\ op' = "lighten"
    /\ err' = LightenFrom(float_hls(arg.colour), Amount(arg)).err
    /\ result' = LightenFrom(float_hls(arg.colour), Amount(arg)).value
    /\ UNCHANGED <<heap, selfRef, extRef, extFrom, arg, pre>>
    /\ NoHex

\* Colour.darken(amount) on the colour at hand
darken ==
    /\ ~Constructed
    /\ op = "start"
    /\ op' = "darken"
    /\ err' = DarkenFrom(float_hls(arg.colour), Amount(arg)).err
    /\ result' = DarkenFrom(float_hls(arg.colour), Amount(arg)).value
    /\ UNCHANGED <<heap, selfRef, extRef, extFrom, arg, pre>>
    /\ NoHex

(***************************************************************************)
(* Specification of lighten and darken of one colour by one amount.        *)
(***************************************************************************)
ShadeColours ==
    {Colour(0, 0, 0), Colour(255, 255, 255), Colour(100, 100, 100), Colour(128, 128, 128),
     Colour(255, 0, 0), Colour(0, 255, 0), Colour(0, 0, 255), Colour(0, 128, 255),
     Colour(0, 5, 5), Colour(0, 51, 51), Colour(10, 200, 30), Colour(254, 1, 128),
     Colour(255, 255, 0), Colour(200, 100, 50), Colour(1, 2, 3), Colour(250, 251, 252),
     Colour(51, 102, 153), Colour(204, 153, 102), Colour(255, 0, 255), Colour(17, 34, 68)}

\* 0, 0.001, 0.1, 0.2, 0.5 and 1
ShadeAmounts == {<<0, 1>>, <<1, 1000>>, <<1, 10>>, <<1, 5>>, <<1, 2>>, <<1, 1>>}

ShadeInputs == {[colour |-> c, num |-> a[1], den |-> a[2]] : c \in ShadeColours, a \in ShadeAmounts}

InitShade ==
    /\ heap = [c \in Cells |-> <<>>]
    /\ selfRef = NoRef
    /\ extRef = "list1"
    /\ extFrom = "argument"
    /\ op = "start"
    /\ arg \in ShadeInputs
    /\ pre = <<>>
    /\ err = NoError
    /\ result = NoValue
    /\ hexColour = Colour(0, 0, 0)
    /\ hexStr = <<>>
    /\ hexBack = NoValue
    /\ hexPc = "idle"
    /\ hexList = <<>>

NextShade == lighten \/ darken

SpecShade == InitShade /\ [][NextShade]_vars

(***************************************************************************)
(* The claims.                                                             *)
(***************************************************************************)

\* C1: Palette([]) raises and constructs nothing, and a constructed palette
\* holds at least one colour in every state add_colour and remove_colour,
\* succeeding or failing, can bring it to.
C1_NeverEmpty ==
    /\ (op = "__init__" /\ arg = <<>>) => (err = EmptyPaletteError /\ ~Constructed)
    /\ Constructed => Len(SelfColours) >= 1

\* C1 witness: the removal of the only colour was refused.
C1_Witness ==
    /\ Constructed
    /\ op = "remove_colour"
    /\ err = LastColourError
    /\ size = 1

\* C2 as stated: remove_colour raises the not-found error when no element
\* equals the colour, an error of a different kind when the palette holds a
\* single colour, and returns otherwise.
C2_DistinctKinds ==
    op = "remove_colour" =>
        IF ~ListContains(pre, arg) THEN err = NotInPaletteError
        ELSE IF Len(pre) <= 1 THEN err # NoError /\ err.type # NotInPaletteError.type
        ELSE err = NoError

\* C2 amended: remove_colour raises ValueError("Colour not in palette") when
\* no element equals the colour, whatever the size; otherwise it raises
\* ValueError("Cannot remove last colour from palette") when the size is <= 1,
\* an error of the same kind that differs in its message only; otherwise it
\* returns.
C2_RemoveErrors ==
    op = "remove_colour" =>
        IF ~ListContains(pre, arg) THEN err = NotInPaletteError
        ELSE IF Len(pre) <= 1
            THEN /\ err = LastColourError
                 /\ err.type = NotInPaletteError.type
                 /\ err.msg # NotInPaletteError.msg
        ELSE err = NoError

\* C2 witness: an absent colour asked of a one-colour palette.
C2_Witness ==
    /\ op = "remove_colour"
    /\ Len(pre) = 1
    /\ ~ListContains(pre, arg)
    /\ err = NotInPaletteError

\* C3: a remove_colour that raised left the sequence as it was, element for
\* element.
C3_FailedRemoveKeepsSequence ==
    (op = "remove_colour" /\ err # NoError) => SelfColours = pre

\* C3 witness: an absent colour asked of a palette of several colours.
C3_Witness ==
    /\ op = "remove_colour"
    /\ err = NotInPaletteError
    /\ Len(pre) >= 2

\* C4: a remove_colour that returned deleted the lowest-index element equal
\* to the colour and nothing else: one element fewer, the others in order.
C4_RemovesFirstMatch ==
    (op = "remove_colour" /\ err = NoError) =>
        \E i \in 1..Len(pre) :
            /\ Colour__eq__(pre[i], arg)
            /\ \A j \in 1..(i - 1) : ~Colour__eq__(pre[j], arg)
            /\ Len(SelfColours) = Len(pre) - 1
            /\ \A j \in 1..(Len(pre) - 1) :
                   SelfColours[j] = IF j < i THEN pre[j] ELSE pre[j + 1]

\* C4 witness: the colour was held twice with another between, and the later
\* one stayed.
C4_Witness ==
    /\ op = "remove_colour"
    /\ err = NoError
    /\ Len(pre) = 3
    /\ Colour__eq__(pre[1], arg)
    /\ ~Colour__eq__(pre[2], arg)
    /\ Colour__eq__(pre[3], arg)
    /\ SelfColours = <<pre[2], pre[3]>>

\* C5: add_colour returns, and the sequence is the one before with the colour
\* as a new last element.
C5_AddAppends ==
    op = "add_colour" =>
        /\ err = NoError
        /\ Len(SelfColours) = Len(pre) + 1
        /\ SelfColours[Len(SelfColours)] = arg
        /\ \A i \in 1..Len(pre) : SelfColours[i] = pre[i]

\* C5 witness: a colour already held was added.
C5_Witness ==
    /\ op = "add_colour"
    /\ ListContains(pre, arg)
    /\ Len(SelfColours) = Len(pre) + 1

\* C6: an append to or a removal from the caller's list, be it the list
\* passed to the constructor or one returned by `colours`, leaves the
\* palette's sequence as it was.
C6_PrivateSequence ==
    (Constructed /\ op \in {"external append", "external remove"}) => SelfColours = pre

\* C6 witness: the caller removed from a list `colours` returned and the
\* palette no longer matches that list.
C6_Witness ==
    /\ Constructed
    /\ op = "external remove"
    /\ extFrom = "colours"
    /\ heap[extRef] # SelfColours

\* C7: a scoring function, get_dominant_colour, to_hex_list, size, len or an
\* indexed access never changes the palette's sequence.
C7_ReadsKeepSequence ==
    [][op' \in ReadOnlyCalls => heap'[selfRef'] = heap[selfRef]]_vars

\* C7 witness: a score was taken of a palette of several colours.
C7_Witness ==
    /\ op = "score_harmony"
    /\ size >= 2
    /\ SelfColours = pre

\* C8: get_dominant_colour returns the element at index 0; add_colour leaves
\* that element in place, and removing it puts the former second element
\* there.
C8_DominantIsFirst ==
    /\ op = "get_dominant_colour" => result = SelfColours[1]
    /\ op = "add_colour" => SelfColours[1] = pre[1]
    /\ (op = "remove_colour" /\ err = NoError /\ Colour__eq__(pre[1], arg)) =>
           SelfColours[1] = pre[2]

\* C8 witness: the dominant colour of a palette whose last colour is another.
C8_Witness ==
    /\ op = "get_dominant_colour"
    /\ size >= 2
    /\ result = SelfColours[1]
    /\ result # SelfColours[size]

GuardedScores == {"score_contrast", "score_uniqueness", "score_harmony",
                  "score_saturation_variation", "score_temperature_variation",
                  "score_brightness_balance"}

\* C9: on a palette of exactly one colour each of the six guarded scoring
\* functions returns exactly 1.0.
C9_SingleColourScoresOne ==
    (op \in GuardedScores /\ Len(pre) = 1) => result = One

\* C9 witness: the brightness balance of a palette holding only black.
C9_Witness ==
    /\ op = "score_brightness_balance"
    /\ pre = <<Colour(0, 0, 0)>>
    /\ result = One

UpperHexDigits == {HexUpper[i] : i \in 1..16}

\* C10: to_hex gives '#' and six uppercase hex digits, and from_hex of that
\* string gives back the three channels.
C10_HexRoundTrip ==
    /\ hexPc \in {"emitted", "parsed"} =>
           /\ Len(hexStr) = 7
           /\ hexStr[1] = "#"
           /\ \A i \in 2..7 : hexStr[i] \in UpperHexDigits
    /\ hexPc = "parsed" =>
           /\ hexBack.err = NoError
           /\ rgb(hexBack.value) = rgb(hexColour)

\* C10 witness: a colour with a channel below 16 and a channel with a letter
\* digit made the round trip.
C10_Witness ==
    /\ hexPc = "parsed"
    /\ rgb(hexColour) = <<9, 171, 255>>
    /\ hexStr = <<"#", "0", "9", "A", "B", "F", "F">>
    /\ hexBack.err = NoError

\* Six hex digits in either case, with or without one leading '#'.
WellFormedHex(s) ==
    \/ Len(s) = 6 /\ \A i \in 1..6 : IsHexDigit(s[i])
    \/ Len(s) = 7 /\ s[1] = "#" /\ \A i \in 2..7 : IsHexDigit(s[i])

\* '#' and six uppercase hex digits.
CanonicalHex(s) == Len(s) = 7 /\ s[1] = "#" /\ \A i \in 2..7 : s[i] \in UpperHexDigits

\* C11 as stated: for a non-empty list L of well-formed hex strings,
\* from_hex_list(L).to_hex_list() is L.
C11_HexListIdentity ==
    (op = "to_hex_list" /\ \A i \in 1..Len(hexList) : WellFormedHex(hexList[i])) =>
        result = hexList

\* C11 amended: for a non-empty list L of well-formed hex strings
\* from_hex_list(L) succeeds, and to_hex_list() then has L's length with, at
\* each place, '#' and the six hex digits of L's element in uppercase; it is L
\* exactly when every element of L is '#' and six uppercase hex digits.
C11_HexListCanonical ==
    (hexList # <<>> /\ \A i \in 1..Len(hexList) : WellFormedHex(hexList[i])) =>
        /\ op = "from_hex_list" => err = NoError
        /\ op = "to_hex_list" =>
            /\ Len(result) = Len(hexList)
            /\ \A i \in 1..Len(hexList) :
                   /\ Len(result[i]) = 7
                   /\ result[i][1] = "#"
                   /\ \A k \in 1..6 :
                          result[i][k + 1] = UpperChar(hexList[i][Len(hexList[i]) - 6 + k])
            /\ (result = hexList) <=> (\A i \in 1..Len(hexList) : CanonicalHex(hexList[i]))

\* C11 witness: a list with a lowercase string and a string without '#' came
\* back changed.
C11_Witness ==
    /\ op = "to_hex_list"
    /\ hexList = << <<"#", "f", "f", "8", "0", "0", "0">>, <<"F", "F", "0", "0", "0", "0">> >>
    /\ result = << <<"#", "F", "F", "8", "0", "0", "0">>, <<"#", "F", "F", "0", "0", "0", "0">> >>

\* C12: from_hex returns a Colour only for six hex digits after at most one
\* leading '#'; every other string makes it raise.
C12_FromHexStrict ==
    hexPc = "parsed" => (hexBack.err = NoError => WellFormedHex(hexStr))

\* C13: to_string_list gives 'rgb(R, G, B)' for each colour of the palette,
\* and from_string_list of a non-empty list of such strings gives a palette.
C13_StringRoundTrip ==
    /\ op = "to_string_list" =>
           (err = NoError /\ result = [i \in 1..Len(pre) |-> Colour__repr__(pre[i])])
    /\ (op = "from_string_list" /\ arg # <<>>) => err = NoError

\* v is the integer nearest to q/4, the even one of the two when q/4 lies
\* halfway between them.
IsRounded(q, v) ==
    \/ Abs(4 * v - q) < 2
    \/ Abs(4 * v - q) = 2 /\ v % 2 = 0

\* C14: Colour(r, g, b) on real inputs succeeds exactly when the integer
\* nearest to each input lies in 0..255 and then stores these three
\* integers; otherwise it raises the range error and no Colour exists.  Every
\* Colour that exists has three integer channels in 0..255.
C14_RoundThenRange ==
    op = "Colour__init__" =>
        /\ (err = NoError) <=> (\A i \in 1..3 : \E v \in Channel : IsRounded(arg[i], v))
        /\ err = NoError =>
               /\ IsRounded(arg[1], result.r)
               /\ IsRounded(arg[2], result.g)
               /\ IsRounded(arg[3], result.b)
               /\ result.r \in Channel /\ result.g \in Channel /\ result.b \in Channel
        /\ err # NoError => (err = RangeError /\ result = NoValue)

\* C14 witness: Colour(2.5, 1.5, 254.5) is rgb(2, 2, 254).
C14_Witness ==
    /\ op = "Colour__init__"
    /\ arg = <<10, 6, 1018>>
    /\ err = NoError
    /\ result = Colour(2, 2, 254)

\* C15: score_uniqueness returns a value in [0, 1], 0 when all the colours
\* are identical.  A returned float that is not exact lies above its
\* rational, so it is at most 1 only when the rational is below 1.
C15_UniquenessInUnit ==
    (op = "score_uniqueness" /\ err = NoError) =>
        /\ result.n >= 0
        /\ result.n < result.d \/ (result.n = result.d /\ result.exact)
        /\ (\A i \in 1..Len(pre) : Colour__eq__(pre[i], pre[1])) /\ Len(pre) >= 2 =>
               result = Float(Rat(0, 1), TRUE)

InUnit(x) == RatLeq(Rat(0, 1), x) /\ RatLeq(x, Rat(1, 1))

\* C16: score_harmony returns a value in [0, 1]; for each pair of the palette
\* the hue distance lies in [0, 1/2] and the pair's harmony value in [0, 1].
C16_HarmonyInUnit ==
    (op = "score_harmony" /\ err = NoError) =>
        /\ InUnit(Rat(result.n, result.d))
        /\ \A i \in 1..Len(pre) : \A j \in 1..Len(pre) :
               /\ RatLeq(Rat(0, 1), HueDiff(hsl(pre[i])[1], hsl(pre[j])[1]))
               /\ RatLeq(HueDiff(hsl(pre[i])[1], hsl(pre[j])[1]), Rat(1, 2))
               /\ InUnit(Harmony(HueDiff(hsl(pre[i])[1], hsl(pre[j])[1])))

\* C16 witness: the harmony of two colours whose hues lie more than a half
\* apart, on the two sides of the wraparound.
C16_Witness ==
    /\ op = "score_harmony"
    /\ err = NoError
    /\ pre = <<Colour(255, 0, 102), Colour(255, 102, 0)>>
    /\ RatLess(Rat(1, 2), RatAbs(RatSub(hsl(pre[1])[1], hsl(pre[2])[1])))
    /\ result = Float(Rat(4, 5), TRUE)

\* C17: lighten(x) for x in [0, 1] returns a colour with no channel below the
\* original's and darken(x) one with no channel above it; white.lighten(x) is
\* white and black.darken(x) is black.
C17_ShadeMonotone ==
    /\ op = "lighten" =>
           /\ err = NoError
           /\ result.r >= arg.colour.r /\ result.g >= arg.colour.g /\ result.b >= arg.colour.b
           /\ arg.colour = Colour(255, 255, 255) => result = Colour(255, 255, 255)
    /\ op = "darken" =>
           /\ err = NoError
           /\ result.r <= arg.colour.r /\ result.g <= arg.colour.g /\ result.b <= arg.colour.b
           /\ arg.colour = Colour(0, 0, 0) => result = Colour(0, 0, 0)

====
